---- MODULE Spec2Model ----
(***************************************************************************)
(* Model of the database tool server (database-mcp-server.ts), of the      *)
(* database access functions it calls (get-table-columns.ts) and of that   *)
(* file's command-line entry point; and of the chat composer of the web    *)
(* client (ChatComposer.tsx).                                              *)
(*                                                                         *)
(* JavaScript values are records [k, s, n]: k is the kind of the value,    *)
(* s its string payload and n its number payload.  Template strings are    *)
(* sequences of string pieces, so that the text interpolated into a        *)
(* message stays visible in it.                                            *)
(***************************************************************************)
EXTENDS Integers, Sequences, FiniteSets, TLC

\* ------------------------------------------------------------------ bounds
\* Tool calls that may be in flight at the same time.
NCalls == 2
\* Largest number of rows a statement returns.
MaxRows == 1

DefaultPort == 3306

Calls == 1..NCalls

\* --------------------------------------------------------- JavaScript values
Undef    == [k |-> "undefined", s |-> "", n |-> 0]
Null     == [k |-> "null", s |-> "", n |-> 0]
Str(x)   == [k |-> "string", s |-> x, n |-> 0]
Num(i)   == [k |-> "number", s |-> "", n |-> i]
Arr      == [k |-> "array", s |-> "", n |-> 0]
Obj      == [k |-> "object", s |-> "", n |-> 0]

\* typeof v
TypeOf(v) ==
  CASE v.k = "undefined" -> "undefined"
    [] v.k = "string"    -> "string"
    [] v.k = "number"    -> "number"
    [] OTHER             -> "object"

\* ToBoolean(v), as used by !v, v && ..., v || ...
Truthy(v) ==
  CASE v.k = "undefined" -> FALSE
    [] v.k = "null"      -> FALSE
    [] v.k = "string"    -> v.s # ""
    [] v.k = "number"    -> v.n # 0
    [] OTHER             -> TRUE

IsArray(v) == v.k = "array"

\* ----------------------------------------------------------- tool arguments
\* request.params.arguments: the value itself (a.v) and, when it is an object,
\* its properties (a.f); a property that is not there reads as undefined.
NoFields == [host |-> Undef, user |-> Undef, password |-> Undef,
             database |-> Undef, tableName |-> Undef, query |-> Undef,
             port |-> Undef, params |-> Undef]
NonObjectArgs == { [v |-> Undef, f |-> NoFields], [v |-> Null, f |-> NoFields],
                   [v |-> Str("args"), f |-> NoFields],
                   [v |-> Arr, f |-> NoFields] }
Prop(args, name) == args.f[name]

\* ------------------------------------------------------------- type guards
\* isDatabaseConnectionArgs without its check of host.
isDatabaseConnectionArgsNoHost(args) ==
  /\ Truthy(args.v)
  /\ TypeOf(Prop(args, "user")) = "string"
  /\ TypeOf(Prop(args, "password")) = "string"
  /\ TypeOf(Prop(args, "database")) = "string"
  /\ (Prop(args, "port") = Undef \/ TypeOf(Prop(args, "port")) = "number")

isDatabaseConnectionArgs(args) ==
  /\ Truthy(args.v)
  /\ TypeOf(Prop(args, "host")) = "string"
  /\ TypeOf(Prop(args, "user")) = "string"
  /\ TypeOf(Prop(args, "password")) = "string"
  /\ TypeOf(Prop(args, "database")) = "string"
  /\ (Prop(args, "port") = Undef \/ TypeOf(Prop(args, "port")) = "number")

isGetTableColumnsArgs(args) ==
  /\ Truthy(args.v)
  /\ TypeOf(Prop(args, "host")) = "string"
  /\ TypeOf(Prop(args, "user")) = "string"
  /\ TypeOf(Prop(args, "password")) = "string"
  /\ TypeOf(Prop(args, "database")) = "string"
  /\ TypeOf(Prop(args, "tableName")) = "string"
  /\ (Prop(args, "port") = Undef \/ TypeOf(Prop(args, "port")) = "number")

isExecuteQueryArgs(args) ==
  /\ Truthy(args.v)
  /\ TypeOf(Prop(args, "host")) = "string"
  /\ TypeOf(Prop(args, "user")) = "string"
  /\ TypeOf(Prop(args, "password")) = "string"
  /\ TypeOf(Prop(args, "database")) = "string"
  /\ TypeOf(Prop(args, "query")) = "string"
  /\ (Prop(args, "port") = Undef \/ TypeOf(Prop(args, "port")) = "number")
  /\ (Prop(args, "params") = Undef \/ IsArray(Prop(args, "params")))

\* ---------------------------------------------------------- tool registry
ToolNames == {"get_table_columns", "get_tables", "execute_query",
              "test_connection"}

\* A registry from which test_connection was left out.
ToolDescriptorsThree ==
  << [name |-> "get_table_columns",
      required |-> <<"host", "user", "password", "database", "tableName">>],
     [name |-> "get_tables",
      required |-> <<"host", "user", "password", "database">>],
     [name |-> "execute_query",
      required |-> <<"host", "user", "password", "database", "query">>] >>

\* The descriptors list_tools returns: name and inputSchema.required.
ToolDescriptors ==
  << [name |-> "get_table_columns",
      required |-> <<"host", "user", "password", "database", "tableName">>],
     [name |-> "get_tables",
      required |-> <<"host", "user", "password", "database">>],
     [name |-> "execute_query",
      required |-> <<"host", "user", "password", "database", "query">>],
     [name |-> "test_connection",
      required |-> <<"host", "user", "password", "database">>] >>

\* The validator the switch applies to each tool name.
ToolGuard(name, args) ==
  CASE name = "get_table_columns" -> isGetTableColumnsArgs(args)
    [] name = "get_tables"        -> isDatabaseConnectionArgs(args)
    [] name = "execute_query"     -> isExecuteQueryArgs(args)
    [] name = "test_connection"   -> isDatabaseConnectionArgs(args)
    [] OTHER                      -> FALSE

\* The database access function each tool name is routed to.
ToolFunction(name) ==
  CASE name = "get_table_columns" -> "getTableColumns"
    [] name = "get_tables"        -> "getTables"
    [] name = "execute_query"     -> "executeQuery"
    [] name = "test_connection"   -> "testConnection"
    [] OTHER                      -> "none"

\* One message for every tool: that of get_tables.
InvalidArgumentsMessageSame(name) ==
  <<"Invalid arguments for ", "get_tables", ". Required: ",
    "host", "user", "password", "database">>

\* The message of the Error thrown when a tool's guard rejects the arguments.
InvalidArgumentsMessage(name) ==
  CASE name = "get_table_columns" ->
         <<"Invalid arguments for ", "get_table_columns", ". Required: ",
           "host", "user", "password", "database", "tableName">>
    [] name = "get_tables" ->
         <<"Invalid arguments for ", "get_tables", ". Required: ",
           "host", "user", "password", "database">>
    [] name = "execute_query" ->
         <<"Invalid arguments for ", "execute_query", ". Required: ",
           "host", "user", "password", "database", "query">>
    [] name = "test_connection" ->
         <<"Invalid arguments for ", "test_connection", ". Required: ",
           "host", "user", "password", "database">>
    [] OTHER -> <<>>

\* An unknown-tool message that leaves the name out.
UnknownToolMessageNoName(name) == <<"Unknown tool">>

UnknownToolMessage(name) == <<"Unknown tool: ", name>>

\* ------------------------------------------------------------------ errors
\* A thrown value: isError is `error instanceof Error`.
MkError(msg) == [isError |-> TRUE, message |-> msg]
NoError      == [isError |-> FALSE, message |-> <<>>]

\* error instanceof Error ? error.message : fallback
MessageOr(e, fallback) == IF e.isError THEN e.message ELSE fallback

\* What the driver rejects with when a step fails.
ConnectFailure == MkError(<<"connect ECONNREFUSED">>)
ExecuteFailure == MkError(<<"You have an error in your SQL syntax">>)
EndFailure     == MkError(<<"read ECONNRESET">>)
\* What JSON.stringify throws on a value it cannot serialise.
StringifyFailure == MkError(<<"Do not know how to serialize a BigInt">>)

\* ------------------------------------------------------- DatabaseResult
NoData == [kind |-> "none", rows |-> <<>>, fields |-> FALSE]
NoResult == [success |-> FALSE, hasData |-> FALSE, data |-> NoData,
             hasError |-> FALSE, error |-> <<>>, message |-> <<>>]

\* The rows a statement returned: n row objects.
RowsOf(n) == [i \in 1..n |-> i]

\* `${v}` for a string or number v
Interp(v) == IF v.k = "number" THEN ToString(v.n) ELSE v.s

NoParams == [host |-> Undef, user |-> Undef, password |-> Undef,
             database |-> Undef, tableName |-> Undef, query |-> Undef,
             params |-> Undef, port |-> Undef]

\* getTableColumns treating an empty result as getTables does.
getTableColumnsReturnEmptyOk(p, rows) ==
  [success |-> TRUE, hasData |-> TRUE,
   data |-> [kind |-> "columns", rows |-> rows, fields |-> FALSE],
   hasError |-> FALSE, error |-> <<>>,
   message |-> <<"Successfully retrieved ", ToString(Len(rows)),
                 " columns from table ", Interp(p.tableName)>>]

\* The value the try block of each function returns once the statement
\* has returned `rows`.
getTableColumnsReturn(p, rows) ==
  IF Len(rows) > 0
  THEN [success |-> TRUE, hasData |-> TRUE,
        data |-> [kind |-> "columns", rows |-> rows, fields |-> FALSE],
        hasError |-> FALSE, error |-> <<>>,
        message |-> <<"Successfully retrieved ", ToString(Len(rows)),
                      " columns from table ", Interp(p.tableName)>>]
  ELSE [success |-> FALSE, hasData |-> FALSE, data |-> NoData,
        hasError |-> FALSE, error |-> <<>>,
        message |-> <<"Table ", Interp(p.tableName),
                      " does not exist or has no columns in database ",
                      Interp(p.database)>>]

getTablesReturn(p, rows) ==
  [success |-> TRUE, hasData |-> TRUE,
   data |-> [kind |-> "tables", rows |-> rows, fields |-> FALSE],
   hasError |-> FALSE, error |-> <<>>,
   message |-> <<"Successfully retrieved ", ToString(Len(rows)),
                 " tables from database ", Interp(p.database)>>]

executeQueryReturn(p, rows) ==
  [success |-> TRUE, hasData |-> TRUE,
   data |-> [kind |-> "raw", rows |-> rows, fields |-> TRUE],
   hasError |-> FALSE, error |-> <<>>,
   message |-> <<"Query executed successfully">>]

testConnectionReturn(p, rows) ==
  [success |-> TRUE, hasData |-> FALSE, data |-> NoData,
   hasError |-> FALSE, error |-> <<>>,
   message |-> <<"Successfully connected to database ", Interp(p.database),
                 "@", Interp(p.host)>>]

TryReturn(op, p, rows) ==
  CASE op = "getTableColumns" -> getTableColumnsReturn(p, rows)
    [] op = "getTables"       -> getTablesReturn(p, rows)
    [] op = "executeQuery"    -> executeQueryReturn(p, rows)
    [] OTHER                  -> testConnectionReturn(p, rows)

\* The message prefix of each function's catch block.
CatchPrefix(op, p) ==
  CASE op = "getTableColumns" ->
         <<"Failed to get columns for table ", Interp(p.tableName), ": ">>
    [] op = "getTables" ->
         <<"Failed to get tables from database ", Interp(p.database), ": ">>
    [] op = "executeQuery" -> <<"Failed to execute query: ">>
    [] OTHER ->
         <<"Failed to connect to database ", Interp(p.database), "@",
           Interp(p.host), ": ">>

\* A catch block that returns an empty data list with the failure.
CatchReturnWithData(op, p, e) ==
  [success |-> FALSE, hasData |-> TRUE,
   data |-> [kind |-> "tables", rows |-> <<>>, fields |-> FALSE],
   hasError |-> TRUE, error |-> MessageOr(e, <<"Unknown error occurred">>),
   message |-> CatchPrefix(op, p) \o MessageOr(e, <<"Unknown error">>)]

\* The value the catch block of each function returns for the error e.
CatchReturn(op, p, e) ==
  [success |-> FALSE, hasData |-> FALSE, data |-> NoData,
   hasError |-> TRUE, error |-> MessageOr(e, <<"Unknown error occurred">>),
   message |-> CatchPrefix(op, p) \o MessageOr(e, <<"Unknown error">>)]

\* ------------------------------------------------------ createConnection
\* The options handed to mysql.createConnection.
ConnectionConfig(p) ==
  [host |-> p.host, user |-> p.user, password |-> p.password,
   database |-> p.database,
   port |-> IF Truthy(p.port) THEN p.port ELSE Num(DefaultPort)]

\* The Error createConnection throws when the driver rejects with e.
createConnectionError(e) ==
  MkError(<<"Failed to connect to database: ">>
          \o MessageOr(e, <<"Unknown error">>))

\* ------------------------------------------------------------------- state
VARIABLES
  req,         \* req[c]: the call_tool request handler activation c serves
  hpc,         \* hpc[c]: where that activation is: idle, awaitFn, responded
  resp,        \* resp[c]: the responses it has returned (n) and the last one
  fn,          \* fn[c]: the database access function activation called by c
  connection,  \* the `let connection` variable of each function activation
  conns,       \* the driver: conns[i] is the connection object created for
               \* activation i, with who executed on it and who ended it
  log,         \* log[c]: the driver calls activation c issued, in order
  oc,          \* oc[c]: how the driver answered activation c's calls
  cli,         \* the command-line process (main)
  listed,      \* what the last list_tools request returned
  input,       \* the composer's text, a sequence of characters
  backendStatus, \* what the composer's health check last found
  isConnecting,  \* the chat store's flags, as the composer reads them
  isTyping,
  sent         \* the last sendMessage call and the state it was made in

dbVars == <<fn, connection, conns, log, oc>>
srvVars == <<req, hpc, resp, listed>>
chatVars == <<input, backendStatus, isConnecting, isTyping, sent>>
vars == <<req, hpc, resp, fn, connection, conns, log, oc, cli, listed,
          input, backendStatus, isConnecting, isTyping, sent>>

NoRequest == [name |-> "", args |-> [v |-> Undef, f |-> NoFields]]
NoResponse == [n |-> 0, text |-> <<>>, isError |-> FALSE]

NoFn == [pc |-> "none", op |-> "none", p |-> NoParams, pending |-> NoResult,
         value |-> NoResult, err |-> NoError, closing |-> 0]
NoConn == [state |-> "none", cfg |-> ConnectionConfig(NoParams),
           execBy |-> {}, endBy |-> {}]
NoOutcome == [connect |-> "none", execute |-> "none", rows |-> 0,
              end |-> "none"]
NoCli == [pc |-> "init", argv |-> <<>>, exit |-> -1, out |-> <<>>,
          caught |-> FALSE]
NoSend == [done |-> FALSE, text |-> <<>>, isConnecting |-> FALSE,
           isTyping |-> FALSE, backendStatus |-> "checking", by |-> ""]

Init ==
  /\ req = [c \in Calls |-> NoRequest]
  /\ hpc = [c \in Calls |-> "idle"]
  /\ resp = [c \in Calls |-> NoResponse]
  /\ fn = [c \in Calls |-> NoFn]
  /\ connection = [c \in Calls |-> 0]
  /\ conns = [c \in Calls |-> NoConn]
  /\ log = [c \in Calls |-> <<>>]
  /\ oc = [c \in Calls |-> NoOutcome]
  /\ cli = NoCli
  /\ listed = <<>>
  /\ input = <<>>
  /\ backendStatus = "checking"
  /\ isConnecting = FALSE
  /\ isTyping = FALSE
  /\ sent = NoSend

\* ------------------------------------------- database access functions
\* The four functions share one shape: try { connect; execute; return }
\* catch { return failure } finally { if (connection) await end() }.  Each
\* step below is the code that runs between two awaits, as a function from
\* the database-side state to the database-side state.
DbState == [fn |-> fn, connection |-> connection, conns |-> conns,
            log |-> log, oc |-> oc]

SetDb(st) ==
  /\ fn' = st.fn
  /\ connection' = st.connection
  /\ conns' = st.conns
  /\ log' = st.log
  /\ oc' = st.oc

\* `connection` hoisted to module scope: one variable for every activation.
ConnVarShared(c) == 1

\* Where activation c keeps its `connection`: a local of the activation.
ConnVar(c) == c

\* Entry of a function up to its first await: connection = null, then
\* createConnection calls mysql.createConnection with the config.
StartFunction(st, c, op, p) ==
  [st EXCEPT
     !.fn[c] = [NoFn EXCEPT !.pc = "connecting", !.op = op, !.p = p],
     !.connection[ConnVar(c)] = 0,
     !.conns[c] = [NoConn EXCEPT !.state = "connecting",
                                 !.cfg = ConnectionConfig(p)],
     !.log[c] = <<"connect">>,
     !.oc[c] = NoOutcome]

\* A function that ends its connection nowhere: every path resolves at once.
FinallyLeak(st, c, res) ==
  [st EXCEPT !.fn[c].pc = "resolved", !.fn[c].value = res,
             !.log[c] = Append(@, "deliver")]

\* The finally block, entered with the value `res` the try or catch block
\* returned: end the connection if there is one, else the function resolves.
Finally(st, c, res) ==
  LET id == st.connection[ConnVar(c)] IN
  IF id # 0
  THEN [st EXCEPT !.fn[c].pc = "closing", !.fn[c].pending = res,
                  !.fn[c].closing = id,
                  !.conns[id].endBy = @ \cup {c},
                  !.log[c] = Append(@, "close")]
  ELSE [st EXCEPT !.fn[c].pc = "resolved", !.fn[c].value = res,
                  !.log[c] = Append(@, "deliver")]

\* A createConnection that tries once more after its first failure.
ConnectSettlesRetry(st, c, ok) ==
  IF ok
  THEN [st EXCEPT !.connection[ConnVar(c)] = c,
                  !.conns[c].state = "open",
                  !.conns[c].execBy = @ \cup {c},
                  !.fn[c].pc = "executing",
                  !.log[c] = Append(@, "execute"),
                  !.oc[c].connect = "ok"]
  ELSE IF Len(st.log[c]) = 1
  THEN [st EXCEPT !.log[c] = Append(@, "connect")]
  ELSE Finally([st EXCEPT !.conns[c].state = "failed",
                          !.oc[c].connect = "fail"],
               c,
               CatchReturn(st.fn[c].op, st.fn[c].p,
                           createConnectionError(ConnectFailure)))

\* mysql.createConnection settles.  On success the connection is stored and
\* the statement is issued on it; on failure createConnection wraps the
\* error, the catch block turns it into a result and finally runs.
ConnectSettles(st, c, ok) ==
  IF ok
  THEN [st EXCEPT !.connection[ConnVar(c)] = c,
                  !.conns[c].state = "open",
                  !.conns[c].execBy = @ \cup {c},
                  !.fn[c].pc = "executing",
                  !.log[c] = Append(@, "execute"),
                  !.oc[c].connect = "ok"]
  ELSE Finally([st EXCEPT !.conns[c].state = "failed",
                          !.oc[c].connect = "fail"],
               c,
               CatchReturn(st.fn[c].op, st.fn[c].p,
                           createConnectionError(ConnectFailure)))

\* connection.execute settles, with n rows or with an error.
ExecuteSettles(st, c, ok, n) ==
  IF ok
  THEN Finally([st EXCEPT !.oc[c].execute = "ok", !.oc[c].rows = n], c,
               TryReturn(st.fn[c].op, st.fn[c].p, RowsOf(n)))
  ELSE Finally([st EXCEPT !.oc[c].execute = "fail"], c,
               CatchReturn(st.fn[c].op, st.fn[c].p, ExecuteFailure))

\* connection.end settles: the function resolves with the pending value, or
\* the rejection of end() leaves the finally block and replaces it.
EndSettles(st, c, ok) ==
  LET id == st.fn[c].closing IN
  IF ok
  THEN [st EXCEPT !.conns[id].state = "ended",
                  !.fn[c].pc = "resolved", !.fn[c].value = st.fn[c].pending,
                  !.log[c] = Append(@, "deliver"),
                  !.oc[c].end = "ok"]
  ELSE [st EXCEPT !.fn[c].pc = "rejected", !.fn[c].err = EndFailure,
                  !.log[c] = Append(@, "deliver"),
                  !.oc[c].end = "fail"]

Settled(c) == fn[c].pc \in {"resolved", "rejected"}

ConnectCompletes(c) ==
  /\ fn[c].pc = "connecting"
  /\ \E ok \in BOOLEAN : SetDb(ConnectSettles(DbState, c, ok))
  /\ UNCHANGED <<srvVars, cli, chatVars>>

ExecuteCompletes(c) ==
  /\ fn[c].pc = "executing"
  /\ \/ \E n \in 0..MaxRows : SetDb(ExecuteSettles(DbState, c, TRUE, n))
     \/ SetDb(ExecuteSettles(DbState, c, FALSE, 0))
  /\ UNCHANGED <<srvVars, cli, chatVars>>

EndCompletes(c) ==
  /\ fn[c].pc = "closing"
  /\ \E ok \in BOOLEAN : SetDb(EndSettles(DbState, c, ok))
  /\ UNCHANGED <<srvVars, cli, chatVars>>

\* ------------------------------------------------------ call_tool handler
BoolText(b) == IF b THEN "true" ELSE "false"

\* JSON.stringify(result, null, 2): the properties that are set, in the
\* order the object literal names them; a property left out is not printed.
JsonStringify(r) ==
  <<"{", "success", BoolText(r.success)>>
  \o (IF r.hasData
      THEN <<"data", r.data.kind, ToString(Len(r.data.rows)),
             BoolText(r.data.fields)>>
      ELSE <<>>)
  \o (IF r.hasError THEN <<"error">> \o r.error ELSE <<>>)
  \o <<"message">> \o r.message \o <<"}">>

\* JSON.stringify throws on a value it cannot serialise (a BigInt, a cycle);
\* only the rows and fields of a caller-chosen statement can hold one.
MayFailToSerialize(r) == r.hasData /\ r.data.kind = "raw"

\* The response of the early return for missing arguments.
MissingArgumentsResponse(prev) ==
  [n |-> prev.n + 1, text |-> <<"Error: Missing or invalid arguments">>,
   isError |-> TRUE]

\* A catch block that forgets isError.
CatchResponseUnflagged(prev, e) ==
  [n |-> prev.n + 1,
   text |-> <<"Error: ">> \o MessageOr(e, <<"Unknown error">>),
   isError |-> FALSE]

\* The response the handler's catch block builds from the thrown value.
CatchResponse(prev, e) ==
  [n |-> prev.n + 1,
   text |-> <<"Error: ">> \o MessageOr(e, <<"Unknown error">>),
   isError |-> TRUE]

\* A response that flags every result whose success is false.
ResultResponseFlagFailures(prev, r) ==
  [n |-> prev.n + 1, text |-> JsonStringify(r), isError |-> ~r.success]

\* The response that carries the function's result.
ResultResponse(prev, r) ==
  [n |-> prev.n + 1, text |-> JsonStringify(r), isError |-> FALSE]

\* The arguments each function is called with, taken from args.
CallParams(args) ==
  [host |-> Prop(args, "host"), user |-> Prop(args, "user"),
   password |-> Prop(args, "password"), database |-> Prop(args, "database"),
   tableName |-> Prop(args, "tableName"), query |-> Prop(args, "query"),
   params |-> Prop(args, "params"), port |-> Prop(args, "port")]

FunctionParams(name, args) ==
  LET a == CallParams(args) IN
  CASE name = "get_table_columns" ->
         [a EXCEPT !.query = Undef, !.params = Undef]
    [] name = "execute_query" -> [a EXCEPT !.tableName = Undef]
    [] OTHER -> [a EXCEPT !.tableName = Undef, !.query = Undef,
                          !.params = Undef]

\* The pre-check on request.params.arguments.
ArgumentsMissing(args) == ~Truthy(args.v) \/ TypeOf(args.v) # "object"

\* The handler for the request r, up to its first await or, when it does
\* not get that far, to its return.
CallToolHandle(c, r) ==
  /\ req' = [req EXCEPT ![c] = r]
  /\ IF ArgumentsMissing(r.args)
     THEN /\ resp' = [resp EXCEPT ![c] = MissingArgumentsResponse(NoResponse)]
          /\ hpc' = [hpc EXCEPT ![c] = "responded"]
          /\ UNCHANGED dbVars
     ELSE IF r.name \notin ToolNames
     THEN /\ resp' = [resp EXCEPT ![c] =
                 CatchResponse(NoResponse, MkError(UnknownToolMessage(r.name)))]
          /\ hpc' = [hpc EXCEPT ![c] = "responded"]
          /\ UNCHANGED dbVars
     ELSE IF ~ToolGuard(r.name, r.args)
     THEN /\ resp' = [resp EXCEPT ![c] =
                 CatchResponse(NoResponse,
                               MkError(InvalidArgumentsMessage(r.name)))]
          /\ hpc' = [hpc EXCEPT ![c] = "responded"]
          /\ UNCHANGED dbVars
     ELSE /\ resp' = [resp EXCEPT ![c] = NoResponse]
          /\ hpc' = [hpc EXCEPT ![c] = "awaitFn"]
          /\ SetDb(StartFunction(DbState, c, ToolFunction(r.name),
                                 FunctionParams(r.name, r.args)))
  /\ UNCHANGED <<cli, listed, chatVars>>

\* A call_tool request arrives, one of `requests`.
CallToolReceive(c, requests) ==
  /\ hpc[c] = "idle"
  /\ \E r \in requests : CallToolHandle(c, r)

\* The awaited function has settled: serialise its result, or catch what it
\* (or JSON.stringify) threw.
CallToolRespond(c) ==
  /\ hpc[c] = "awaitFn"
  /\ Settled(c)
  /\ IF fn[c].pc = "resolved"
     THEN \/ resp' = [resp EXCEPT ![c] = ResultResponse(@, fn[c].value)]
          \/ /\ MayFailToSerialize(fn[c].value)
             /\ resp' = [resp EXCEPT ![c] = CatchResponse(@, StringifyFailure)]
     ELSE resp' = [resp EXCEPT ![c] = CatchResponse(@, fn[c].err)]
  /\ hpc' = [hpc EXCEPT ![c] = "responded"]
  /\ UNCHANGED <<req, listed, dbVars, cli, chatVars>>

\* The handler has returned: the activation and its locals are gone, and
\* the next request can be taken.
CallToolDone(c) ==
  /\ hpc[c] = "responded"
  /\ req' = [req EXCEPT ![c] = NoRequest]
  /\ hpc' = [hpc EXCEPT ![c] = "idle"]
  /\ resp' = [resp EXCEPT ![c] = NoResponse]
  /\ SetDb([DbState EXCEPT !.fn[c] = NoFn, !.connection[c] = 0,
                           !.conns[c] = NoConn, !.log[c] = <<>>,
                           !.oc[c] = NoOutcome])
  /\ UNCHANGED <<cli, listed, chatVars>>

\* list_tools
ListTools ==
  /\ listed' = ToolDescriptors
  /\ UNCHANGED <<req, hpc, resp, dbVars, cli, chatVars>>

\* ------------------------------------------------- command-line entry
\* formatTableInfo / formatColumnInfo: the heading and one entry per row.
formatTableInfo(rows) ==
  IF Len(rows) = 0 THEN <<"No tables found.">>
  ELSE <<"Database contains ", ToString(Len(rows)), " tables:">>
       \o [i \in 1..Len(rows) |-> "table entry"]

formatColumnInfo(rows) ==
  IF Len(rows) = 0 THEN <<"No columns found.">>
  ELSE <<"Table contains ", ToString(Len(rows)), " columns:">>
       \o [i \in 1..Len(rows) |-> "column entry"]

\* const [command, host, user, password, database, ...extraParams] = args
ExtraParams(argv) == SubSeq(argv, 6, Len(argv))

\* The arguments main passes to a function: no port, no params.
MainParams(argv, tableName, query) ==
  [host |-> Str(argv[2]), user |-> Str(argv[3]), password |-> Str(argv[4]),
   database |-> Str(argv[5]), tableName |-> tableName, query |-> query,
   params |-> Undef, port |-> Undef]

MainFunction(command) ==
  CASE command = "test"    -> "testConnection"
    [] command = "tables"  -> "getTables"
    [] command = "columns" -> "getTableColumns"
    [] command = "query"   -> "executeQuery"
    [] OTHER               -> "none"

\* console.error + process.exit(1) for a command line main cannot run.
UsageExit(argv, line) ==
  [pc |-> "exited", argv |-> argv, exit |-> 1, out |-> line,
   caught |-> FALSE]

Banner == <<"Starting database operation...">>

\* main() up to its first await, or to process.exit(1).
CliMain(argv) ==
  /\ cli.pc = "init"
  /\ IF Len(argv) < 5
     THEN /\ cli' = UsageExit(argv, <<"Usage: ...">>)
          /\ UNCHANGED dbVars
     ELSE IF MainFunction(argv[1]) = "none"
     THEN /\ cli' = UsageExit(argv, Banner \o <<"Unknown command: ", argv[1]>>)
          /\ UNCHANGED dbVars
     ELSE IF argv[1] = "columns" /\ Len(ExtraParams(argv)) = 0
     THEN /\ cli' = UsageExit(argv,
                      Banner \o <<"Table name is required for columns command">>)
          /\ UNCHANGED dbVars
     ELSE IF argv[1] = "query" /\ Len(ExtraParams(argv)) = 0
     THEN /\ cli' = UsageExit(argv,
                      Banner \o <<"SQL query is required for query command">>)
          /\ UNCHANGED dbVars
     ELSE /\ cli' = [pc |-> "await", argv |-> argv, exit |-> -1,
                     out |-> Banner, caught |-> FALSE]
          /\ SetDb(StartFunction(DbState, 1, MainFunction(argv[1]),
                     MainParams(argv,
                       IF argv[1] = "columns" THEN Str(ExtraParams(argv)[1])
                                              ELSE Undef,
                       IF argv[1] = "query" THEN Str(ExtraParams(argv)[1])
                                            ELSE Undef)))
  /\ UNCHANGED <<srvVars, chatVars>>

\* JSON.stringify(result.data, null, 2) for the data of executeQuery.
JsonStringifyData(d) ==
  <<"{", "rows", ToString(Len(d.rows)), "fields", BoolText(d.fields), "}">>

\* Output in which `tables` prints no listing.
ResultOutputNoTables(command, r) ==
  IF ~(r.success /\ r.hasData) THEN <<>>
  ELSE CASE command = "columns" -> formatColumnInfo(r.data.rows)
         [] command = "query"   ->
              <<"Query result:">> \o JsonStringifyData(r.data)
         [] OTHER -> <<>>

\* What main prints for a result before it reports success or failure; the
\* data of a successful result is truthy whenever it is set.
ResultOutput(command, r) ==
  IF ~(r.success /\ r.hasData) THEN <<>>
  ELSE CASE command = "tables"  -> formatTableInfo(r.data.rows)
         [] command = "columns" -> formatColumnInfo(r.data.rows)
         [] command = "query"   ->
              <<"Query result:">> \o JsonStringifyData(r.data)
         [] OTHER -> <<>>

\* A report that leaves the exit code at 0 for a failed result.
ResultReportNoExit(r) ==
  IF r.success
  THEN [out |-> <<"OK ">> \o r.message, exit |-> 0]
  ELSE [out |-> <<"FAILED ">> \o r.message, exit |-> 0]

\* The report and the exit code that end main for the result r.
ResultReport(r) ==
  IF r.success
  THEN [out |-> <<"OK ">> \o r.message, exit |-> 0]
  ELSE [out |-> <<"FAILED ">> \o r.message
                \o (IF r.hasError /\ r.error # <<>>
                    THEN <<"Error details: ">> \o r.error ELSE <<>>),
        exit |-> 1]

\* main's catch block: print the error and process.exit(1).
MainCatch(st, e) ==
  [st EXCEPT !.pc = "exited", !.exit = 1, !.caught = TRUE,
             !.out = @ \o <<"Operation failed:">> \o e.message]

\* The awaited function has settled: print, report, exit.
CliSettled ==
  /\ cli.pc = "await"
  /\ Settled(1)
  /\ LET command == cli.argv[1]
         r == fn[1].value
     IN IF fn[1].pc = "rejected"
        THEN cli' = MainCatch(cli, fn[1].err)
        ELSE \/ cli' = [cli EXCEPT !.pc = "exited",
                          !.exit = ResultReport(r).exit,
                          !.out = @ \o ResultOutput(command, r)
                                    \o ResultReport(r).out]
             \/ /\ command = "query" /\ r.success /\ MayFailToSerialize(r)
                /\ cli' = MainCatch(cli, StringifyFailure)
  /\ UNCHANGED <<srvVars, dbVars, chatVars>>

\* ------------------------------------------------------ chat composer
\* Longest text typed into the textarea.
MaxInput == 2

Whitespace == {" ", "\n"}
Chars == {" ", "a"}

\* String.prototype.trim: the text without its leading and trailing
\* white space.
RECURSIVE trimStart(_)
trimStart(s) ==
  IF s # <<>> /\ Head(s) \in Whitespace THEN trimStart(Tail(s)) ELSE s
RECURSIVE trimEnd(_)
trimEnd(s) ==
  IF s # <<>> /\ s[Len(s)] \in Whitespace
  THEN trimEnd(SubSeq(s, 1, Len(s) - 1)) ELSE s
trim(s) == trimEnd(trimStart(s))

\* The texts a change event of the textarea can carry.
Typed == UNION { [1..n -> Chars] : n \in 0..MaxInput }

\* The `disabled` attributes of the textarea (and the attach button) and of
\* the send button.
TextareaDisabled == isConnecting \/ isTyping
SendButtonDisabled ==
  trim(input) = <<>> \/ isConnecting \/ isTyping
    \/ backendStatus # "connected"

\* checkBackendConnection, on mount and every 30 seconds: the health check
\* has succeeded or failed.
checkBackendConnection(ok) ==
  /\ backendStatus' = (IF ok THEN "connected" ELSE "disconnected")
  /\ UNCHANGED <<input, isConnecting, isTyping, sent>>
  /\ UNCHANGED <<srvVars, dbVars, cli>>

\* The chat store changes the flags the composer reads from it.
StoreUpdate(connecting, typing) ==
  /\ isConnecting' = connecting
  /\ isTyping' = typing
  /\ UNCHANGED <<input, backendStatus, sent>>
  /\ UNCHANGED <<srvVars, dbVars, cli>>

\* handleInputChange: a change event of the (enabled) textarea.
handleInputChange(value) ==
  /\ ~TextareaDisabled
  /\ input' = value
  /\ UNCHANGED <<backendStatus, isConnecting, isTyping, sent>>
  /\ UNCHANGED <<srvVars, dbVars, cli>>

\* handleToolClick: a tool of the list was clicked.
handleToolClick(toolName) ==
  /\ input' = <<"/">> \o toolName \o <<" ">>
  /\ UNCHANGED <<backendStatus, isConnecting, isTyping, sent>>
  /\ UNCHANGED <<srvVars, dbVars, cli>>

\* onChange of the file input: the attachment note is appended.
FileAttached ==
  /\ Len(input) <= MaxInput
  /\ input' = input \o <<"\n", "[Attached: file]">>
  /\ UNCHANGED <<backendStatus, isConnecting, isTyping, sent>>
  /\ UNCHANGED <<srvVars, dbVars, cli>>

\* handleSubmit, reached from the form's submit event or from handleKeyDown.
handleSubmit(by) ==
  /\ IF trim(input) = <<>> \/ isConnecting \/ isTyping
     THEN UNCHANGED <<input, sent>>
     ELSE /\ input' = <<>>
          /\ sent' = [done |-> TRUE, text |-> input,
                      isConnecting |-> isConnecting, isTyping |-> isTyping,
                      backendStatus |-> backendStatus, by |-> by]
  /\ UNCHANGED <<backendStatus, isConnecting, isTyping>>
  /\ UNCHANGED <<srvVars, dbVars, cli>>

\* A click on the send button, which submits the form unless it is disabled.
ClickSend ==
  /\ ~SendButtonDisabled
  /\ handleSubmit("button")

\* handleKeyDown: a key is pressed in the (enabled) textarea.
handleKeyDown(key, shiftKey) ==
  /\ ~TextareaDisabled
  /\ IF key = "Enter" /\ ~shiftKey
     THEN handleSubmit("Enter")
     ELSE UNCHANGED vars

\* ----------------------------------------------------------- the inputs
ArgObject(h, u, w, d, t, q, po, pa) ==
  [v |-> Obj,
   f |-> [host |-> h, user |-> u, password |-> w, database |-> d,
          tableName |-> t, query |-> q, port |-> po, params |-> pa]]

\* Argument objects: every field right, missing or of another type.
ObjectArgs ==
  { ArgObject(h, u, w, d, t, q, po, pa) :
      h \in {Str("localhost"), Undef},
      u \in {Str("root"), Num(7)},
      w \in {Str("secret"), Null},
      d \in {Str("shop"), Undef, Num(7)},
      t \in {Str("users"), Undef, Num(7)},
      q \in {Str("SELECT 1"), Undef, Arr},
      po \in {Undef, Num(0), Num(3307), Str("3306"), Null},
      pa \in {Undef, Arr, Str("1")} }

Requests ==
  [name : ToolNames \cup {"drop_table"}, args : NonObjectArgs \cup ObjectArgs]

\* The requests of the concurrent runs: one well-formed call per tool, one
\* rejected call and one unknown tool.
GoodArgs == ArgObject(Str("localhost"), Str("root"), Str("secret"),
                      Str("shop"), Str("users"), Str("SELECT 1"), Undef, Undef)
ConcRequests ==
  [name : ToolNames, args : {GoodArgs}]
  \cup { [name |-> "get_tables",
          args |-> [GoodArgs EXCEPT !.f.host = Undef]],
         [name |-> "drop_table", args |-> GoodArgs] }

Commands == {"test", "tables", "columns", "query", "drop"}
FullArgv(command) ==
  <<command, "localhost", "root", "secret", "shop",
    IF command = "query" THEN "SELECT 1" ELSE "users">>
Argvs == { SubSeq(FullArgv(command), 1, n) : command \in Commands, n \in 0..6 }

\* ------------------------------------------------------- specifications
\* The server handling one call_tool request at a time.
Next ==
  \/ CallToolReceive(1, Requests)
  \/ ConnectCompletes(1)
  \/ ExecuteCompletes(1)
  \/ EndCompletes(1)
  \/ CallToolRespond(1)
  \/ CallToolDone(1)
  \/ ListTools

Spec == Init /\ [][Next]_vars

\* The server with several call_tool requests in flight.
NextConc ==
  \/ \E c \in Calls : CallToolReceive(c, ConcRequests)
  \/ \E c \in Calls : ConnectCompletes(c)
  \/ \E c \in Calls : ExecuteCompletes(c)
  \/ \E c \in Calls : EndCompletes(c)
  \/ \E c \in Calls : CallToolRespond(c)
  \/ \E c \in Calls : CallToolDone(c)

SpecConc == Init /\ [][NextConc]_vars

\* The command-line process.
NextCli ==
  \/ \E argv \in Argvs : CliMain(argv)
  \/ ConnectCompletes(1)
  \/ ExecuteCompletes(1)
  \/ EndCompletes(1)
  \/ CliSettled

SpecCli == Init /\ [][NextCli]_vars

\* The chat composer, its user, its health check and its store.
NextChat ==
  \/ \E ok \in BOOLEAN : checkBackendConnection(ok)
  \/ \E connecting, typing \in BOOLEAN : StoreUpdate(connecting, typing)
  \/ \E value \in Typed : handleInputChange(value)
  \/ handleToolClick(<<"t">>)
  \/ FileAttached
  \/ ClickSend
  \/ \E key \in {"Enter", "a"}, shiftKey \in BOOLEAN :
       handleKeyDown(key, shiftKey)

SpecChat == Init /\ [][NextChat]_vars

\* ================================================================ claims
Count(seq, x) == Cardinality({i \in DOMAIN seq : seq[i] = x})
Mentions(msg, x) == \E i \in DOMAIN msg : msg[i] = x

\* The database function of activation c has been entered, or the driver
\* has been asked for a connection on its behalf.
DbReached(c) ==
  fn[c].pc # "none" \/ log[c] # <<>> \/ conns[c].state # "none"

\* The shape the tool `name` requires of its arguments, as the description
\* of the tools states it.
IsString(v) == v.k = "string"
RequiredShape(name, args) ==
  /\ args.v.k \in {"object", "array"}
  /\ \A x \in {"host", "user", "password", "database"} : IsString(args.f[x])
  /\ name = "get_table_columns" => IsString(args.f.tableName)
  /\ name = "execute_query" => IsString(args.f.query)
  /\ args.f.port.k \in {"undefined", "number"}
  /\ name = "execute_query" => args.f.params.k \in {"undefined", "array"}

\* C1: a database access function is entered, and a connection asked for,
\* only for a request that names one of the four tools and whose arguments
\* have the shape that tool requires.
C1_NoDbAccessUnlessValid ==
  \A c \in Calls :
    DbReached(c) =>
      req[c].name \in ToolNames /\ RequiredShape(req[c].name, req[c].args)

\* C1 witness: get_tables was called with an argument object that lacks
\* host; the call has been answered and the database was never reached.
C1_Witness ==
  /\ hpc[1] = "responded"
  /\ req[1].name = "get_tables"
  /\ req[1].args.v = Obj
  /\ req[1].args.f.host = Undef
  /\ IsString(req[1].args.f.database)
  /\ resp[1].isError
  /\ ~DbReached(1)

\* C2 (as claimed): no database access function ever rejects, whatever the
\* driver's connect, execute and end steps do.
C2_NeverRejects == \A c \in Calls : fn[c].pc # "rejected"

\* C3 (as claimed): a call that has completed has asked for exactly one
\* connection and has closed exactly one, connection failure included.
C3_ExactlyOneOpenOneClose ==
  \A c \in Calls :
    Settled(c) =>
      Count(log[c], "connect") = 1 /\ Count(log[c], "close") = 1

\* C3 (amended): every call makes exactly one connection attempt; when the
\* attempt succeeds the call has issued exactly one end() on that connection
\* by the time it completes, whatever the statement did, and when it fails
\* no connection exists and none is closed; no call ever issues two.
C3_OneOpenCloseIffConnected ==
  \A c \in Calls :
    /\ Count(log[c], "connect") <= 1
    /\ Count(log[c], "close") <= 1
    /\ DbReached(c) => Count(log[c], "connect") = 1
    /\ Settled(c) =>
         IF oc[c].connect = "ok"
         THEN /\ Count(log[c], "close") = 1
              /\ conns[c].endBy = {c}
              /\ oc[c].end = "ok" => conns[c].state = "ended"
         ELSE /\ Count(log[c], "close") = 0
              /\ conns[c].state = "failed"
              /\ conns[c].endBy = {}

\* C3 witness: a call whose connection succeeded and whose statement failed
\* has completed, with its one connection ended.
C3_Witness ==
  /\ fn[1].pc = "resolved"
  /\ oc[1].connect = "ok"
  /\ oc[1].execute = "fail"
  /\ log[1] = <<"connect", "execute", "close", "deliver">>
  /\ conns[1].state = "ended"

IsErrorText(text) == Len(text) >= 1 /\ text[1] = "Error: "
IsResultText(text) == Len(text) >= 1 /\ text[1] = "{"

\* C4: a call_tool activation returns one response, never more; the
\* response is the serialised result of the database function, without
\* isError, or an error text with isError; whatever is thrown (by the
\* validation, by the database function, by the serialisation) comes back as
\* "Error: " followed by the error's message, with isError.
C4_OneResponseErrorsFlagged ==
  \A c \in Calls :
    /\ resp[c].n <= 1
    /\ hpc[c] = "responded" <=> resp[c].n = 1
    /\ hpc[c] = "responded" =>
         \/ /\ ~resp[c].isError
            /\ fn[c].pc = "resolved"
            /\ resp[c].text = JsonStringify(fn[c].value)
         \/ /\ resp[c].isError
            /\ ~IsResultText(resp[c].text)
            /\ \/ resp[c].text = <<"Error: Missing or invalid arguments">>
               \/ IsErrorText(resp[c].text)
    /\ hpc[c] = "responded" /\ fn[c].pc = "rejected" =>
         resp[c].isError /\ resp[c].text = <<"Error: ">> \o fn[c].err.message
    /\ hpc[c] = "responded" /\ fn[c].pc = "none"
         /\ resp[c].text # <<"Error: Missing or invalid arguments">> =>
         /\ resp[c].isError
         /\ \/ resp[c].text = <<"Error: ">> \o UnknownToolMessage(req[c].name)
            \/ resp[c].text =
                 <<"Error: ">> \o InvalidArgumentsMessage(req[c].name)
    /\ hpc[c] = "responded" /\ fn[c].pc = "resolved" /\ resp[c].isError =>
         /\ MayFailToSerialize(fn[c].value)
         /\ resp[c].text = <<"Error: ">> \o StringifyFailure.message

\* C4 witness: the database function rejected (its end() failed) and the
\* handler answered with the error's message, flagged.
C4_Witness ==
  /\ hpc[1] = "responded"
  /\ fn[1].pc = "rejected"
  /\ resp[1].n = 1
  /\ resp[1].isError
  /\ resp[1].text = <<"Error: ", "read ECONNRESET">>

\* The required list the descriptor of the tool `name` declares.
RequiredOf(name) ==
  LET i == CHOOSE j \in DOMAIN ToolDescriptors :
             ToolDescriptors[j].name = name
  IN ToolDescriptors[i].required
IsObjectArgs(args) == args.v.k \in {"object", "array"}

\* C5 (as claimed): a request for a name that is no registered tool is
\* answered, whatever its arguments, by an error naming the unknown tool.
C5_UnknownToolAlways ==
  \A c \in Calls :
    hpc[c] = "responded" /\ req[c].name \notin ToolNames =>
      /\ resp[c].isError
      /\ resp[c].text = <<"Error: ", "Unknown tool: ", req[c].name>>

\* C5 (amended): a request for a name that is no registered tool is always
\* answered by one error response and never reaches the database; the
\* response is the unknown-tool error with the name when the arguments are
\* an object, and the generic "Missing or invalid arguments" error, without
\* the name, when the arguments are absent or not an object.
C5_UnknownToolForObjectArgs ==
  \A c \in Calls :
    req[c].name # "" /\ req[c].name \notin ToolNames =>
      /\ hpc[c] = "responded"
      /\ resp[c].n = 1
      /\ resp[c].isError
      /\ ~DbReached(c)
      /\ IF IsObjectArgs(req[c].args)
         THEN resp[c].text = <<"Error: ", "Unknown tool: ", req[c].name>>
         ELSE /\ resp[c].text = <<"Error: Missing or invalid arguments">>
              /\ ~Mentions(resp[c].text, req[c].name)

\* C5 witness: an unknown tool called with a well-formed argument object
\* has been answered with the error that names it.
C5_Witness ==
  /\ hpc[1] = "responded"
  /\ req[1].name = "drop_table"
  /\ req[1].args.v = Obj
  /\ IsString(req[1].args.f.host)
  /\ resp[1].text = <<"Error: ", "Unknown tool: ", "drop_table">>

InvalidArgumentsText(name) ==
  <<"Error: ", "Invalid arguments for ", name, ". Required: ">>
  \o RequiredOf(name)

\* C6 (as claimed): a call of one of the four tools whose arguments do not
\* have the required shape, absent arguments included, is answered by an
\* error that names the tool and lists its required fields.
C6_InvalidArgumentsAlways ==
  \A c \in Calls :
    hpc[c] = "responded" /\ req[c].name \in ToolNames
      /\ ~RequiredShape(req[c].name, req[c].args) =>
      /\ resp[c].isError
      /\ resp[c].text = InvalidArgumentsText(req[c].name)

\* C6 (amended): a call of one of the four tools whose arguments do not have
\* the required shape is always answered by one error response without
\* reaching the database; when the arguments are an object the error names
\* the tool and lists the required fields its descriptor declares, and when
\* they are absent or not an object it is the generic "Missing or invalid
\* arguments" error, which names neither.
C6_InvalidArgumentsForObjectArgs ==
  \A c \in Calls :
    req[c].name \in ToolNames /\ ~RequiredShape(req[c].name, req[c].args) =>
      /\ hpc[c] = "responded"
      /\ resp[c].n = 1
      /\ resp[c].isError
      /\ ~DbReached(c)
      /\ IF IsObjectArgs(req[c].args)
         THEN resp[c].text = InvalidArgumentsText(req[c].name)
         ELSE /\ resp[c].text = <<"Error: Missing or invalid arguments">>
              /\ ~Mentions(resp[c].text, req[c].name)

\* C6 witness: execute_query called with params that is no array has been
\* answered with the error naming execute_query and its five fields.
C6_Witness ==
  /\ hpc[1] = "responded"
  /\ req[1].name = "execute_query"
  /\ IsString(req[1].args.f.query)
  /\ req[1].args.f.params = Str("1")
  /\ resp[1].text = <<"Error: ", "Invalid arguments for ", "execute_query",
                      ". Required: ", "host", "user", "password", "database",
                      "query">>

\* C7: with the connection and the statement succeeding and no row found,
\* getTables resolves to success with an empty data list and
\* getTableColumns to a failure without data whose message names the table
\* and the database; a getTables whose connection failed is a failure.
C7_EmptyResultAsymmetry ==
  \A c \in Calls :
    fn[c].pc = "resolved" =>
      /\ fn[c].op = "getTables" /\ oc[c].execute = "ok" /\ oc[c].rows = 0 =>
           /\ fn[c].value.success
           /\ fn[c].value.hasData
           /\ fn[c].value.data.rows = <<>>
      /\ fn[c].op = "getTables" /\ oc[c].connect = "fail" =>
           ~fn[c].value.success
      /\ fn[c].op = "getTableColumns" /\ oc[c].execute = "ok"
           /\ oc[c].rows = 0 =>
           /\ ~fn[c].value.success
           /\ ~fn[c].value.hasData
           /\ Mentions(fn[c].value.message, fn[c].p.tableName.s)
           /\ Mentions(fn[c].value.message, fn[c].p.database.s)

\* C7 witness: getTableColumns has resolved after a statement that found no
\* column.
C7_Witness ==
  /\ fn[1].pc = "resolved"
  /\ fn[1].op = "getTableColumns"
  /\ oc[1].connect = "ok" /\ oc[1].execute = "ok" /\ oc[1].rows = 0
  /\ oc[1].end = "ok"
  /\ ~fn[1].value.success

\* The envelope invariant of a result.
Envelope(r) ==
  /\ r.message # <<>>
  /\ r.success \/ (~r.hasData /\ r.message # <<>>)
  /\ r.hasError => r.error # <<>> /\ ~r.success

\* C8: every result a database access function returns, on every exit
\* path, has its message set, and is either a success or a failure without
\* data whose message (and error, when set) describes the failure.
C8_ResultEnvelope ==
  \A c \in Calls :
    /\ fn[c].pc = "resolved" => Envelope(fn[c].value)
    /\ fn[c].pc = "closing" => Envelope(fn[c].pending)

\* C8 witness: executeQuery has resolved to the failure its catch block
\* built for a failed statement.
C8_Witness ==
  /\ fn[1].pc = "resolved"
  /\ fn[1].op = "executeQuery"
  /\ oc[1].execute = "fail"
  /\ ~fn[1].value.success
  /\ fn[1].value.hasError

\* What a call settles to when it runs alone, from its arguments and the
\* answers the driver gave it.
AloneOutcome(op, p, o) ==
  IF o.connect = "fail"
  THEN [pc |-> "resolved",
        value |-> CatchReturn(op, p, createConnectionError(ConnectFailure)),
        err |-> NoError]
  ELSE IF o.end = "fail"
  THEN [pc |-> "rejected", value |-> NoResult, err |-> EndFailure]
  ELSE IF o.execute = "ok"
  THEN [pc |-> "resolved", value |-> TryReturn(op, p, RowsOf(o.rows)),
        err |-> NoError]
  ELSE [pc |-> "resolved", value |-> CatchReturn(op, p, ExecuteFailure),
        err |-> NoError]

\* C9: with several calls in flight, the connection of a call is executed
\* on and ended by that call alone, the `connection` of a call never refers
\* to the connection of another, and a call settles to what it would have
\* settled to alone.
C9_ConnectionOwnedByCall ==
  \A c \in Calls :
    /\ conns[c].execBy \subseteq {c}
    /\ conns[c].endBy \subseteq {c}
    /\ connection[c] \in {0, c}
    /\ Settled(c) =>
         [pc |-> fn[c].pc, value |-> fn[c].value, err |-> fn[c].err]
           = AloneOutcome(fn[c].op, fn[c].p, oc[c])

\* C9 witness: call 2 has completed and been answered while call 1, begun
\* with another tool, is still ending its own connection.
C9_Witness ==
  /\ hpc[2] = "responded"
  /\ fn[2].pc = "resolved"
  /\ conns[2].state = "ended"
  /\ fn[1].pc = "closing"
  /\ fn[1].op # fn[2].op
  /\ conns[1].state = "open"

CliCommands == {"test", "tables", "columns", "query"}
UsageError(argv) ==
  \/ Len(argv) < 5
  \/ argv[1] \notin CliCommands
  \/ argv[1] \in {"columns", "query"} /\ Len(argv) < 6

\* C10: the command-line process exits with 0 exactly when the command
\* line is usable and the function resolved to a success with nothing
\* thrown, and with 1 otherwise; a usage error exits with 1 before any
\* connection is asked for.
C10_ExitCode ==
  /\ cli.pc = "await" => ~UsageError(cli.argv) /\ cli.exit = -1
  /\ cli.pc = "exited" =>
       /\ cli.exit \in {0, 1}
       /\ cli.exit = 0 <=>
            /\ ~UsageError(cli.argv)
            /\ fn[1].pc = "resolved"
            /\ fn[1].value.success
            /\ ~cli.caught
       /\ UsageError(cli.argv) => cli.exit = 1 /\ ~DbReached(1)
       /\ ~UsageError(cli.argv) => Settled(1)

\* C10 witness: `columns` for a table without columns has exited with 1
\* after its connection was opened and closed.
C10_Witness ==
  /\ cli.pc = "exited"
  /\ Len(cli.argv) = 6
  /\ cli.argv[1] = "columns"
  /\ fn[1].pc = "resolved"
  /\ oc[1].execute = "ok" /\ oc[1].rows = 0
  /\ cli.exit = 1

\* The lines main has printed after its banner.
PrintedAfterBanner == SubSeq(cli.out, Len(Banner) + 1, Len(cli.out))
PrintsJson == Mentions(PrintedAfterBanner, "{")
PrintsListing ==
  \/ Mentions(PrintedAfterBanner, "No tables found.")
  \/ Mentions(PrintedAfterBanner, "Database contains ")
  \/ Mentions(PrintedAfterBanner, "Table contains ")
SuccessfulRun == cli.pc = "exited" /\ cli.exit = 0

\* C11 (as claimed): a successful run of tables or columns prints the
\* formatted listing, and a successful run of query or test prints JSON.
C11_JsonForQueryAndTest ==
  SuccessfulRun =>
    /\ cli.argv[1] \in {"tables", "columns"} => PrintsListing /\ ~PrintsJson
    /\ cli.argv[1] \in {"query", "test"} => PrintsJson /\ ~PrintsListing

\* C11 (amended): a successful run prints, between the banner and the
\* success message: for tables the listing of the tables found ("No tables
\* found." for none), for columns the listing of the columns found, for
\* query "Query result:" and the JSON of the result's data (not of the
\* whole result), and for test nothing at all.
C11_OutputPerCommand ==
  SuccessfulRun =>
    LET n == oc[1].rows
        ok == <<"OK ">> \o fn[1].value.message
    IN CASE cli.argv[1] = "tables" ->
              /\ PrintedAfterBanner
                   = (IF n = 0 THEN <<"No tables found.">>
                      ELSE <<"Database contains ", ToString(n), " tables:">>
                           \o [i \in 1..n |-> "table entry"]) \o ok
              /\ ~PrintsJson
         [] cli.argv[1] = "columns" ->
              /\ n > 0
              /\ PrintedAfterBanner
                   = <<"Table contains ", ToString(n), " columns:">>
                     \o [i \in 1..n |-> "column entry"] \o ok
              /\ ~PrintsJson
         [] cli.argv[1] = "query" ->
              /\ PrintedAfterBanner
                   = <<"Query result:", "{", "rows", ToString(n), "fields",
                       "true", "}">> \o ok
              /\ ~PrintsListing
         [] OTHER ->
              /\ cli.argv[1] = "test"
              /\ PrintedAfterBanner = ok
              /\ ~PrintsJson /\ ~PrintsListing

\* C11 witness: a successful `test` run has ended having printed only its
\* success message.
C11_Witness ==
  /\ SuccessfulRun
  /\ cli.argv[1] = "test"
  /\ fn[1].value.success
  /\ PrintedAfterBanner
       = <<"OK ", "Successfully connected to database ", "shop", "@",
           "localhost">>

\* The set of elements of a sequence.
Range(seq) == {seq[i] : i \in DOMAIN seq}

\* C12: whatever list_tools has returned, at any point of any run of
\* call_tool requests, is the same list of exactly four descriptors, named
\* get_table_columns, get_tables, execute_query and test_connection, each
\* with a required list containing host, user, password and database.
C12_FourStaticDescriptors ==
  listed # <<>> =>
    /\ Len(listed) = 4
    /\ <<listed[1].name, listed[2].name, listed[3].name, listed[4].name>>
         = <<"get_table_columns", "get_tables", "execute_query",
             "test_connection">>
    /\ \A i \in 1..4 :
         {"host", "user", "password", "database"}
           \subseteq Range(listed[i].required)
    /\ Range(listed[1].required) \ {"host", "user", "password", "database"}
         = {"tableName"}
    /\ Range(listed[3].required) \ {"host", "user", "password", "database"}
         = {"query"}

\* C12 witness: the list has been returned while a call_tool request that
\* failed and one that reached the database are on record.
C12_Witness ==
  /\ listed # <<>>
  /\ Len(listed) = 4
  /\ hpc[1] = "responded"
  /\ resp[1].isError
  /\ fn[1].pc = "rejected"

\* C13: the connection of a call is opened with the host, user, password
\* and database of the call's arguments, with the port of the arguments
\* whenever they hold one, and with port 3306 when they hold none.
C13_PortAsSupplied ==
  \A c \in Calls :
    (hpc[c] # "idle" /\ fn[c].pc # "none") =>
      LET a == req[c].args.f
          cfg == conns[c].cfg
      IN /\ cfg.host = a.host
         /\ cfg.user = a.user
         /\ cfg.password = a.password
         /\ cfg.database = a.database
         /\ cfg.port = (IF a.port = Undef THEN Num(3306) ELSE a.port)

IsPrefix(s, t) == Len(s) <= Len(t) /\ s = SubSeq(t, 1, Len(s))

\* C14: within one call of a database access function the driver events
\* occur in the order connect, execute, close, delivery: one connection
\* attempt and at most one statement per call, exactly one statement once
\* the connection has succeeded and none (and no close) when it has failed,
\* and a result is delivered only after the connection has been closed.
C14_EventOrder ==
  \A c \in Calls :
    fn[c].pc # "none" =>
      /\ \/ IsPrefix(log[c], <<"connect", "execute", "close", "deliver">>)
         \/ log[c] = <<"connect", "deliver">>
      /\ Count(log[c], "connect") = 1
      /\ Count(log[c], "execute") = (IF oc[c].connect = "ok" THEN 1 ELSE 0)
      /\ oc[c].connect = "fail" => log[c] = <<"connect", "deliver">>
      /\ Mentions(log[c], "deliver") <=> Settled(c)
      /\ (fn[c].pc = "resolved" /\ oc[c].connect = "ok") =>
           /\ log[c] = <<"connect", "execute", "close", "deliver">>
           /\ conns[c].state = "ended"
           /\ oc[c].end = "ok"

\* C14 witness: a call whose statement failed has delivered its result after
\* connect, execute and close.
C14_Witness ==
  /\ fn[1].pc = "resolved"
  /\ oc[1].connect = "ok"
  /\ oc[1].execute = "fail"
  /\ ~fn[1].value.success
  /\ log[1] = <<"connect", "execute", "close", "deliver">>

\* The causes of an error response: the dispatcher rejected the arguments,
\* did not recognise the tool name, or caught what the database function or
\* the serialisation of its result threw.
ArgumentsRejected(c) ==
  \/ ~IsObjectArgs(req[c].args)
  \/ req[c].name \in ToolNames /\ ~RequiredShape(req[c].name, req[c].args)
ToolUnrecognised(c) == req[c].name \notin ToolNames
ThrownErrorCaught(c) ==
  \/ fn[c].pc = "rejected"
  \/ /\ fn[c].pc = "resolved"
     /\ fn[c].value.success
     /\ resp[c].text = <<"Error: ">> \o StringifyFailure.message
OperationFailed(c) == fn[c].pc = "resolved" /\ ~fn[c].value.success

\* C15: a result with success = false (connection failure, statement
\* failure, no columns found) is answered as the JSON of that result without
\* isError; isError is set exactly when the dispatcher rejected the
\* arguments, did not recognise the tool name, or caught a thrown error.
C15_FailureIsNotProtocolError ==
  \A c \in Calls :
    hpc[c] = "responded" =>
      /\ OperationFailed(c) =>
           /\ ~resp[c].isError
           /\ resp[c].text = JsonStringify(fn[c].value)
           /\ SubSeq(resp[c].text, 1, 3) = <<"{", "success", "false">>
           /\ \/ oc[c].connect = "fail"
              \/ oc[c].execute = "fail"
              \/ fn[c].op = "getTableColumns" /\ oc[c].rows = 0
      /\ resp[c].isError <=>
           (ArgumentsRejected(c) \/ ToolUnrecognised(c) \/ ThrownErrorCaught(c))

\* C15 witness: get_table_columns found no columns and the response carries
\* the failed result, unflagged.
C15_Witness ==
  /\ hpc[1] = "responded"
  /\ req[1].name = "get_table_columns"
  /\ oc[1].execute = "ok"
  /\ oc[1].rows = 0
  /\ ~fn[1].value.success
  /\ ~resp[1].isError
  /\ IsResultText(resp[1].text)

\* C16: whenever sendMessage has been invoked, by the send button or by
\* Enter, the trimmed input was not empty, neither isConnecting nor isTyping
\* was set, and the backend status was "connected".
C16_SendOnlyWhenConnected ==
  sent.done =>
    /\ trim(sent.text) # <<>>
    /\ ~sent.isConnecting
    /\ ~sent.isTyping
    /\ sent.backendStatus = "connected"

====
